---- MODULE Spec2Model ----
\* Multi-source news retrieval: NewsSourceManager (priority-ordered selection
\* with fallback) over the four NewsSource implementations.
EXTENDS Integers, Sequences, FiniteSets, TLC

\* ------------------------------------------------------------------ bounds

\* largest max_items a caller passes
MaxItems == 1

\* most entries an upstream listing (front page, subreddit, feed, search) offers
MaxUpstream == 2

\* longest priority list a configuration file holds
MaxPriorityLen == 1

\* register_source calls made after construction
MaxRegistrations == 1

\* entries of a priority list long enough to name a provider twice
MaxConfiguredPriority == 2

\* most items one fetch_content_by_type call returns
MaxContent == 2

\* most sections the real agent answers with
MaxSections == 2

\* ------------------------------------------------------------ Python values

\* Python's None
None == "None"

Min(a, b) == IF a < b THEN a ELSE b

Max(a, b) == IF a > b THEN a ELSE b

\* the Python slice s[:n]
Slice(s, n) ==
    IF n >= 0 THEN SubSeq(s, 1, Min(n, Len(s)))
    ELSE SubSeq(s, 1, Max(0, Len(s) + n))

\* membership in a Python list
InSeq(x, s) == \E i \in 1..Len(s) : s[i] = x

\* the sequences over S of length at most n
SeqUpTo(S, n) == UNION {[1..k -> S] : k \in 0..n}

\* __post_init__ leaving the metadata field as it was given
NewsItem_post_init_keeps_none(md) == md

\* __post_init__: a metadata of None becomes the empty dict
NewsItem_post_init(md) == IF md = None THEN "{}" ELSE md

\* NewsItem: the fields the manager and its callers read; key identifies the
\* upstream entry the item was built from. The variants all pass a metadata
\* dict of their own.
NewsItem(name, cat, key) ==
    [source_name |-> name, cat |-> cat, key |-> key,
     metadata |-> NewsItem_post_init("dict")]

\* a NewsItem constructed without a metadata argument
NewsItem_without_metadata(name, cat, key) ==
    [source_name |-> name, cat |-> cat, key |-> key,
     metadata |-> NewsItem_post_init(None)]

\* the outcome of one provider fetch: a returned list, or a raised exception
\* of the named class
Returned(items) == [error |-> None, items |-> items]

Raised(kind) == [error |-> kind, items |-> <<>>]

\* the indices of the TRUE entries of s, from i on, in order
RECURSIVE TrueIndices(_, _)
TrueIndices(s, i) ==
    IF i > Len(s) THEN <<>>
    ELSE (IF s[i] THEN <<i>> ELSE <<>>) \o TrueIndices(s, i + 1)

\* ---------------------------------------------------------------- providers

\* the variants, in the order _load_sources tries them
ProviderOrder == <<"hackernews", "reddit", "wikipedia", "tavily">>

ProviderNames == {ProviderOrder[i] : i \in 1..Len(ProviderOrder)}

\* the categories each variant declares at construction
categories(p) ==
    CASE p = "hackernews" -> {"tech", "startup", "ai"}
      [] p = "reddit" -> {"tech", "science", "fun", "news", "startup"}
      [] p = "wikipedia" -> {"news", "history", "fun", "events"}
      [] p = "tavily" -> {"tech", "science", "news", "fun", "ai"}
      [] p = "custom" -> {"tech", "history"}
      [] OTHER -> {}

supports_category(p, cat) == cat \in categories(p)

\* the category tags a caller may pass: every declared one and an undeclared one
AllCategories == UNION {categories(p) : p \in ProviderNames} \cup {"other"}

\* is_available() of a freshly constructed variant: hackernews and wikipedia
\* answer True; reddit and tavily answer whether _initialize succeeded
AvailabilityChoices(p) ==
    IF p \in {"hackernews", "wikipedia"} THEN {TRUE} ELSE BOOLEAN

SUBREDDIT_MAP(cat) ==
    CASE cat = "tech" -> <<"technology", "programming", "artificial">>
      [] cat = "science" -> <<"science", "askscience", "space">>
      [] cat = "fun" -> <<"todayilearned", "explainlikeimfive", "Damnthatsinteresting">>
      [] cat = "news" -> <<"worldnews", "news">>
      [] cat = "startup" -> <<"startups", "entrepreneur">>
      [] OTHER -> <<>>

\* CATEGORY_QUERIES.get(category, [category])
CATEGORY_QUERIES(cat) ==
    CASE cat = "tech" -> <<"latest technology news", "AI breakthroughs", "new tech products">>
      [] cat = "science" -> <<"recent scientific discoveries", "space exploration news", "medical breakthroughs">>
      [] cat = "news" -> <<"breaking news today", "world news", "current events">>
      [] cat = "fun" -> <<"interesting facts", "unusual discoveries", "amazing stories">>
      [] cat = "ai" -> <<"artificial intelligence news", "machine learning advances", "AI research">>
      [] OTHER -> <<cat>>

\* ---- hackernews

\* what the front-page retrieval meets: the tools module failing to import, a
\* network or parse failure of the whole page, or a page of story rows, each
\* well-formed (TRUE) or lacking its title cell (FALSE)
HackerNewsEnv ==
    {[kind |-> k, rows |-> <<>>] : k \in {"import_error", "network_error"}}
    \cup {[kind |-> "ok", rows |-> r] : r \in SeqUpTo(BOOLEAN, MaxUpstream)}

\* the scraper without the try block around one story row: a malformed row
\* among those examined fails the whole scrape
scrape_hacker_news_failing_on_row(max_n, page) ==
    IF page.kind # "ok"
    THEN [items |-> <<>>, total_items |-> 0, error |-> TRUE]
    ELSE LET story_rows == Slice(page.rows, max_n)
             items == TrueIndices(story_rows, 1)
         IN IF Len(items) < Len(story_rows)
            THEN [items |-> <<>>, total_items |-> 0, error |-> TRUE]
            ELSE [items |-> items, total_items |-> Len(items), error |-> FALSE]

\* the result dictionary of the scraper; an item is the rank of its row
scrape_hacker_news(max_n, page) ==
    IF page.kind # "ok"
    THEN [items |-> <<>>, total_items |-> 0, error |-> TRUE]
    ELSE LET story_rows == Slice(page.rows, max_n)
             items == TrueIndices(story_rows, 1)
         IN [items |-> items, total_items |-> Len(items), error |-> FALSE]

HackerNewsSource_fetch(cat, max_n, avail, page) ==
    IF ~supports_category("hackernews", cat) THEN Raised("ValueError")
    ELSE IF ~avail THEN Raised("RuntimeError")
    ELSE IF page.kind = "import_error" THEN Raised("RuntimeError")
    ELSE LET scraped == scrape_hacker_news(max_n, page)
             kept == Slice(scraped.items, max_n)
         IN IF scraped.items = <<>> THEN Returned(<<>>)
            ELSE Returned([i \in 1..Len(kept) |->
                              NewsItem("hackernews", cat, <<kept[i], 0>>)])

\* ---- reddit

\* what one subreddit query meets: an exception, or a hot listing whose
\* entries are stickied (TRUE) or not
SubredditEnv ==
    {[kind |-> "error", posts |-> <<>>]}
    \cup {[kind |-> "ok", posts |-> s] : s \in SeqUpTo(BOOLEAN, MaxUpstream)}

RedditEnv(cat) == [1..Len(SUBREDDIT_MAP(cat)) -> SubredditEnv]

\* the loop over one subreddit's listing with stickied posts kept
RECURSIVE reddit_hot_loop_keeping_stickied(_, _, _, _, _, _)
reddit_hot_loop_keeping_stickied(cat, max_n, i, posts, j, news_items) ==
    IF j > Len(posts) THEN news_items
    ELSE LET appended == Append(news_items, NewsItem("reddit", cat, <<i, j>>))
         IN IF Len(appended) >= max_n THEN appended
            ELSE reddit_hot_loop_keeping_stickied(cat, max_n, i, posts, j + 1, appended)

\* the loop over one subreddit's hot(limit) listing
RECURSIVE reddit_hot_loop(_, _, _, _, _, _)
reddit_hot_loop(cat, max_n, i, posts, j, news_items) ==
    IF j > Len(posts) THEN news_items
    ELSE IF posts[j] THEN reddit_hot_loop(cat, max_n, i, posts, j + 1, news_items)
    ELSE LET appended == Append(news_items, NewsItem("reddit", cat, <<i, j>>))
         IN IF Len(appended) >= max_n THEN appended
            ELSE reddit_hot_loop(cat, max_n, i, posts, j + 1, appended)

\* the loop over the category's subreddits ending at the first subreddit
\* whose query raises
RECURSIVE reddit_sub_loop_stop_on_error(_, _, _, _, _, _)
reddit_sub_loop_stop_on_error(cat, max_n, items_per_sub, env, i, news_items) ==
    IF i > Len(SUBREDDIT_MAP(cat)) THEN news_items
    ELSE IF env[i].kind = "error" THEN news_items
    ELSE LET after == reddit_hot_loop(cat, max_n, i,
                                      Slice(env[i].posts, items_per_sub), 1, news_items)
         IN IF Len(after) >= max_n THEN after
            ELSE reddit_sub_loop_stop_on_error(cat, max_n, items_per_sub, env,
                                               i + 1, after)

\* the loop over the category's subreddits
RECURSIVE reddit_sub_loop(_, _, _, _, _, _)
reddit_sub_loop(cat, max_n, items_per_sub, env, i, news_items) ==
    IF i > Len(SUBREDDIT_MAP(cat)) THEN news_items
    ELSE IF env[i].kind = "error"
    THEN reddit_sub_loop(cat, max_n, items_per_sub, env, i + 1, news_items)
    ELSE LET after == reddit_hot_loop(cat, max_n, i,
                                      Slice(env[i].posts, items_per_sub), 1, news_items)
         IN IF Len(after) >= max_n THEN after
            ELSE reddit_sub_loop(cat, max_n, items_per_sub, env, i + 1, after)

\* RedditSource.fetch without its two entry checks
RedditSource_fetch_unchecked(cat, max_n, avail, env) ==
    LET subreddits == SUBREDDIT_MAP(cat)
    IN IF subreddits = <<>> THEN Returned(<<>>)
       ELSE Returned(Slice(reddit_sub_loop(cat, max_n,
                                           Max(1, max_n \div Len(subreddits)),
                                           env, 1, <<>>), max_n))

\* the subreddits the loop queries, in order
RECURSIVE reddit_queried(_, _, _, _, _, _)
reddit_queried(cat, max_n, items_per_sub, env, i, news_items) ==
    IF i > Len(SUBREDDIT_MAP(cat)) THEN <<>>
    ELSE IF env[i].kind = "error"
    THEN <<i>> \o reddit_queried(cat, max_n, items_per_sub, env, i + 1, news_items)
    ELSE LET after == reddit_hot_loop(cat, max_n, i,
                                      Slice(env[i].posts, items_per_sub), 1, news_items)
         IN IF Len(after) >= max_n THEN <<i>>
            ELSE <<i>> \o reddit_queried(cat, max_n, items_per_sub, env, i + 1, after)

RedditSource_fetch(cat, max_n, avail, env) ==
    IF ~supports_category("reddit", cat) THEN Raised("ValueError")
    ELSE IF ~avail THEN Raised("RuntimeError")
    ELSE LET subreddits == SUBREDDIT_MAP(cat)
         IN IF subreddits = <<>> THEN Returned(<<>>)
            ELSE LET items_per_sub == Max(1, max_n \div Len(subreddits))
                     news_items == reddit_sub_loop(cat, max_n, items_per_sub,
                                                   env, 1, <<>>)
                 IN Returned(Slice(news_items, max_n))

\* ---- wikipedia

\* what a Wikipedia request meets: a failure (network, HTTP status, JSON), or
\* a feed holding this many events
WikipediaEnv ==
    {[kind |-> "error", events |-> 0]}
    \cup {[kind |-> "ok", events |-> n] : n \in 0..MaxUpstream}

WikipediaSource_fetch_on_this_day(max_n, env) ==
    IF env.kind = "error" THEN <<>>
    ELSE LET events == Slice([i \in 1..env.events |-> i], max_n)
         IN [i \in 1..Len(events) |-> NewsItem("wikipedia", "history", <<events[i], 0>>)]

\* one item pointing at the portal, whatever max_items is
WikipediaSource_fetch_current_events(max_n, env) ==
    IF env.kind = "error" THEN <<>>
    ELSE <<NewsItem("wikipedia", "news", <<0, 0>>)>>

\* WikipediaSource.fetch without the category check, so that its last branch
\* serves every other category
WikipediaSource_fetch_with_fallback(cat, max_n, avail, env) ==
    IF ~avail THEN Raised("RuntimeError")
    ELSE IF cat \in {"news", "events"}
    THEN Returned(WikipediaSource_fetch_current_events(max_n, env))
    ELSE Returned(WikipediaSource_fetch_on_this_day(max_n, env))

WikipediaSource_fetch(cat, max_n, avail, env) ==
    IF ~supports_category("wikipedia", cat) THEN Raised("ValueError")
    ELSE IF ~avail THEN Raised("RuntimeError")
    ELSE IF cat \in {"history", "fun"}
    THEN Returned(WikipediaSource_fetch_on_this_day(max_n, env))
    ELSE IF cat \in {"news", "events"}
    THEN Returned(WikipediaSource_fetch_current_events(max_n, env))
    ELSE Returned(WikipediaSource_fetch_on_this_day(max_n, env))

\* ---- tavily

\* what one search meets: an exception, a single text blob, a list of hits
\* each a dict (TRUE) or not, or some other shape
TavilyQueryEnv ==
    {[kind |-> k, hits |-> <<>>] : k \in {"error", "str", "other"}}
    \cup {[kind |-> "list", hits |-> s] : s \in SeqUpTo(BOOLEAN, MaxUpstream)}

TavilyEnv(cat) == [1..Len(CATEGORY_QUERIES(cat)) -> TavilyQueryEnv]

\* the items one search result adds
tavily_parse(cat, items_per_query, i, results) ==
    IF results.kind = "str" THEN <<NewsItem("tavily", cat, <<i, 0>>)>>
    ELSE IF results.kind = "list"
    THEN LET dicts == TrueIndices(Slice(results.hits, items_per_query), 1)
         IN [j \in 1..Len(dicts) |-> NewsItem("tavily", cat, <<i, dicts[j]>>)]
    ELSE <<>>

\* the loop over the category's queries
RECURSIVE tavily_query_loop(_, _, _, _, _, _)
tavily_query_loop(cat, max_n, items_per_query, env, i, news_items) ==
    IF i > Len(CATEGORY_QUERIES(cat)) THEN news_items
    ELSE IF env[i].kind = "error"
    THEN tavily_query_loop(cat, max_n, items_per_query, env, i + 1, news_items)
    ELSE LET after == news_items \o tavily_parse(cat, items_per_query, i, env[i])
         IN IF Len(after) >= max_n THEN after
            ELSE tavily_query_loop(cat, max_n, items_per_query, env, i + 1, after)

TavilySource_fetch(cat, max_n, avail, env) ==
    IF ~supports_category("tavily", cat) THEN Raised("ValueError")
    ELSE IF ~avail THEN Raised("RuntimeError")
    ELSE LET queries == CATEGORY_QUERIES(cat)
             items_per_query == Max(1, max_n \div Len(queries))
             news_items == tavily_query_loop(cat, max_n, items_per_query,
                                             env, 1, <<>>)
         IN Returned(Slice(news_items, max_n))

\* search_custom(query, max_results): one search, its exceptions swallowed
TavilySource_search_custom(max_results, avail, env) ==
    IF ~avail THEN Raised("RuntimeError")
    ELSE IF env.kind = "str" THEN Returned(<<NewsItem("tavily", "custom", <<0, 0>>)>>)
    ELSE IF env.kind = "list"
    THEN LET dicts == TrueIndices(Slice(env.hits, max_results), 1)
         IN Returned([j \in 1..Len(dicts) |->
                         NewsItem("tavily", "custom", <<0, dicts[j]>>)])
    ELSE Returned(<<>>)

\* search_news going to search_custom without asking is_available() first
search_news_without_check(max_n, avail, env) ==
    LET r == TavilySource_search_custom(max_n, avail, env)
    IN IF r.error # None THEN [items |-> <<>>, count |-> 0, error |-> r.error]
       ELSE [items |-> r.items, count |-> Len(r.items), error |-> None]

\* the dictionary search_news returns
search_news(max_n, avail, env) ==
    IF ~avail
    THEN [items |-> <<>>, count |-> 0,
          error |-> "Tavily search is not available (missing API key)"]
    ELSE LET r == TavilySource_search_custom(max_n, avail, env)
         IN IF r.error # None THEN [items |-> <<>>, count |-> 0, error |-> r.error]
            ELSE [items |-> r.items, count |-> Len(r.items), error |-> None]

\* ---- the NewsSource interface

\* what a fetch of provider p for the category can meet
FetchEnv(p, cat) ==
    CASE p = "hackernews" -> HackerNewsEnv
      [] p = "reddit" -> RedditEnv(cat)
      [] p = "wikipedia" -> WikipediaEnv
      [] p = "tavily" -> TavilyEnv(cat)

\* source.fetch(category, max_items), dispatched on the provider's class
fetch(p, cat, max_n, avail, env) ==
    CASE p = "hackernews" -> HackerNewsSource_fetch(cat, max_n, avail, env)
      [] p = "reddit" -> RedditSource_fetch(cat, max_n, avail, env)
      [] p = "wikipedia" -> WikipediaSource_fetch(cat, max_n, avail, env)
      [] p = "tavily" -> TavilySource_fetch(cat, max_n, avail, env)

\* every outcome source.fetch(category, max_items) can have, over all the
\* provider can meet
FetchOutcomes ==
    [p \in ProviderNames, cat \in AllCategories, n \in 0..MaxItems, a \in BOOLEAN |->
        {fetch(p, cat, n, a, env) : env \in FetchEnv(p, cat)}] @@ <<>>

\* what fetch of a NewsSource subclass written outside the package can do:
\* raise, return nothing, or return an item it built without metadata
CustomOutcomes(cat, max_n) ==
    {Raised("Exception"), Returned(<<>>),
     Returned(Slice(<<NewsItem_without_metadata("custom", cat, <<1, 0>>)>>, max_n))}

\* the outcomes of source.fetch(category, max_items) for a registered provider
fetch_outcomes(p, cat, max_n, avail) ==
    IF p = "custom" THEN CustomOutcomes(cat, max_n)
    ELSE FetchOutcomes[p, cat, max_n, avail]

\* ------------------------------------------------------------------ manager

VARIABLES
    sources,          \* the registered provider names, in registration order
    available,        \* is_available() of each registered provider object
    source_priority,  \* the configured priority list
    registrations,    \* register_source calls made since construction
    pc,               \* "idle", "loop" (inside the auto-selection loop), "done"
    path,             \* the path the call in progress took: "pinned" or "auto"
    category,         \* arguments of the call in progress
    max_items,
    source_name,      \* the source_name argument, then the loop variable
    ordered_sources,  \* the candidate list of the auto-selection loop
    idx,              \* position of the loop in ordered_sources
    fetchLog,         \* the provider fetches the call made, in order
    logged,           \* the diagnostic the call logged last
    result,           \* the list the call returned
    source_config,    \* the per-source settings _load_config keeps
    startup,          \* what construction meets: the configuration file and
                      \* how each variant loads; None once it is not kept
    upstream,         \* what a provider called directly met; None otherwise
    digest,           \* a digest generation: its inputs, position and sections
    calls             \* the fetch_by_category frames of concurrent callers

vars == <<sources, available, source_priority, registrations, pc, path, category,
          max_items, source_name, ordered_sources, idx, fetchLog, logged, result,
          source_config, startup, upstream, digest, calls>>

managerVars == <<sources, available, source_priority, registrations,
                 source_config, startup>>

\* the priority list _use_default_config sets
DefaultPriority == <<"hackernews", "reddit", "wikipedia", "tavily">>

\* names a configuration file may list: the variants and an unknown name
PriorityNames == ProviderNames \cup {"other"}

\* source_config as _use_default_config sets it
DefaultSourceConfig ==
    {[name |-> "hackernews", enabled |-> TRUE, categories |-> {"tech", "startup"}],
     [name |-> "reddit", enabled |-> TRUE, categories |-> {"tech", "science", "fun"}],
     [name |-> "wikipedia", enabled |-> TRUE, categories |-> {"news", "history", "fun"}],
     [name |-> "tavily", enabled |-> TRUE,
      categories |-> {"tech", "news", "science", "fun"}]}

\* the 'sources' mapping of a configuration file
FileSourceConfig ==
    {[name |-> "wikipedia", enabled |-> TRUE, categories |-> {"history"}]}

\* what _load_config finds at config_path: no file; a file that cannot be
\* opened or is not JSON; JSON that is no mapping; or a mapping with a
\* priority list and a 'sources' entry that is a mapping or has no len()
ConfigFiles ==
    {[kind |-> k, priority |-> <<>>, sources |-> "none"] :
        k \in {"missing", "unreadable", "not_mapping"}}
    \cup {[kind |-> "mapping", priority |-> p, sources |-> s] :
            p \in SeqUpTo(PriorityNames, MaxPriorityLen), s \in {"mapping", "unsized"}}

use_default_config ==
    [source_priority |-> DefaultPriority, source_config |-> DefaultSourceConfig]

\* _load_config whose except clause leaves what the try block had assigned
load_config_keeping_partial(file) ==
    IF file.kind = "missing" THEN use_default_config
    ELSE IF file.kind = "mapping"
    THEN [source_priority |-> file.priority,
          source_config |-> IF file.sources = "mapping" THEN FileSourceConfig ELSE {}]
    ELSE [source_priority |-> <<>>, source_config |-> {}]

\* source_priority and source_config after _load_config
load_config(file) ==
    IF file.kind = "missing" THEN use_default_config
    ELSE IF file.kind \in {"unreadable", "not_mapping"}
    THEN use_default_config      \* open, json.load or config.get raised
    ELSE IF file.sources = "unsized"
    THEN use_default_config      \* both assigned, then len(source_config) raised
    ELSE [source_priority |-> file.priority, source_config |-> FileSourceConfig]

\* how a variant loads in _load_sources: importing or constructing it raises,
\* it constructs but reports is_available() false, or it is usable
VariantOutcomes(p) ==
    IF p \in {"hackernews", "wikipedia"} THEN {"raises", "ok"}
    ELSE {"raises", "unavailable", "ok"}

StartupChoices ==
    [config_file : ConfigFiles,
     variants : {f \in [ProviderNames -> {"raises", "unavailable", "ok"}] :
                    \A p \in ProviderNames : f[p] \in VariantOutcomes(p)}]

\* sources after _load_sources: the variants that imported, constructed and
\* reported is_available(), in the order they are tried
load_sources(usable) == SelectSeq(ProviderOrder, LAMBDA p : p \in usable)

\* _load_sources with one try block around the four variants: the first
\* variant that raises ends the loading
load_variants_single_try(outcome) ==
    LET raising == {i \in 1..Len(ProviderOrder) : outcome[ProviderOrder[i]] = "raises"}
        tried == IF raising = {} THEN ProviderOrder
                 ELSE SubSeq(ProviderOrder, 1,
                             (CHOOSE i \in raising : \A j \in raising : i <= j) - 1)
    IN SelectSeq(tried, LAMBDA p : outcome[p] = "ok")

\* _load_sources registering every variant that constructs, available or not
load_variants_registering_unavailable(outcome) ==
    load_sources({p \in ProviderNames : outcome[p] \in {"ok", "unavailable"}})

\* sources after _load_sources, each variant loaded in a try block of its own
load_variants(outcome) == load_sources({p \in ProviderNames : outcome[p] = "ok"})

\* self.sources[source.name] = source, on an insertion-ordered dict
register_source(srcs, p) == IF InSeq(p, srcs) THEN srcs ELSE Append(srcs, p)

\* get_sources_for_category without the is_available() test
get_sources_ignoring_availability(srcs, avail, cat) ==
    SelectSeq(srcs, LAMBDA name : supports_category(name, cat))

\* get_sources_for_category without the supports_category() test
get_sources_ignoring_category(srcs, avail, cat) ==
    SelectSeq(srcs, LAMBDA name : avail[name])

\* get_sources_for_category consulting source_config: a provider is a
\* candidate only if its entry is enabled and lists the category
get_sources_honouring_config(srcs, avail, cat) ==
    SelectSeq(srcs, LAMBDA name :
        /\ avail[name] /\ supports_category(name, cat)
        /\ \E e \in source_config : e.name = name /\ e.enabled /\ cat \in e.categories)

get_sources_for_category(srcs, avail, cat) ==
    SelectSeq(srcs, LAMBDA name : avail[name] /\ supports_category(name, cat))

\* the pinned path taken only for a registered name, any other name falling
\* through to auto-selection
pinned_if_registered(name) == name \notin {None, ""} /\ InSeq(name, sources)

\* `if source_name:` -- None and the empty string both mean no pinned source
pinned(name) == name \notin {None, ""}

\* the pinned checks looking the name up among the known variants instead of
\* the registered providers
pinned_check_known_variants(srcs, avail, name, cat) ==
    IF ~InSeq(name, ProviderOrder) THEN "not_found"
    ELSE IF ~avail[name] THEN "unavailable"
    ELSE IF ~supports_category(name, cat) THEN "unsupported"
    ELSE "fetch"

\* the pinned checks without the is_available() test
pinned_check_no_availability(srcs, avail, name, cat) ==
    IF ~InSeq(name, srcs) THEN "not_found"
    ELSE IF ~supports_category(name, cat) THEN "unsupported"
    ELSE "fetch"

\* the pinned checks without the supports_category() test
pinned_check_no_category(srcs, avail, name, cat) ==
    IF ~InSeq(name, srcs) THEN "not_found"
    ELSE IF ~avail[name] THEN "unavailable"
    ELSE "fetch"

\* the checks of the pinned path, in order
pinned_check(srcs, avail, name, cat) ==
    IF ~InSeq(name, srcs) THEN "not_found"
    ELSE IF ~avail[name] THEN "unavailable"
    ELSE IF ~supports_category(name, cat) THEN "unsupported"
    ELSE "fetch"

\* the candidates left in registration order, the priority list unused
order_sources_by_registration(priority, available_sources) == available_sources

\* priority_sources + remaining_sources
order_sources(priority, available_sources) ==
    LET priority_sources == SelectSeq(priority, LAMBDA s : InSeq(s, available_sources))
        remaining_sources ==
            SelectSeq(available_sources, LAMBDA s : ~InSeq(s, priority_sources))
    IN priority_sources \o remaining_sources

\* the loop returning whatever the first fetch that does not raise returned
loop_returns_any_list(r) == r.error = None

\* the loop never returning early
loop_returns_never(r) == FALSE

\* `if items:` in the loop -- the fetch returned a non-empty list
loop_returns(r) == r.error = None /\ r.items # <<>>

\* one entry of fetchLog
Invocation(p, r) == [source |-> p, error |-> r.error, items |-> r.items]

\* the dictionary of fetch_news with no error field on an empty list
fetch_news_response_without_error(news_items, cat) ==
    IF news_items = <<>>
    THEN [items |-> <<>>, source_used |-> "none", category |-> cat, count |-> 0,
          error |-> None]
    ELSE [items |-> news_items, source_used |-> news_items[1].source_name,
          category |-> cat, count |-> Len(news_items), error |-> None]

\* the dictionary of fetch_news naming the first candidate of the loop as the
\* source used, whichever candidate produced the items
fetch_news_response_first_candidate(news_items, cat) ==
    IF news_items = <<>>
    THEN [items |-> <<>>, source_used |-> "none", category |-> cat, count |-> 0,
          error |-> "No items available from any source"]
    ELSE [items |-> news_items,
          source_used |-> IF ordered_sources # <<>> THEN ordered_sources[1]
                          ELSE news_items[1].source_name,
          category |-> cat, count |-> Len(news_items), error |-> None]

\* the dictionary fetch_news builds from the list fetch_by_category returned
fetch_news_response(news_items, cat) ==
    IF news_items = <<>>
    THEN [items |-> <<>>, source_used |-> "none", category |-> cat, count |-> 0,
          error |-> "No items available from any source"]
    ELSE [items |-> news_items, source_used |-> news_items[1].source_name,
          category |-> cat, count |-> Len(news_items), error |-> None]

SourceNameArgs == {None, ""} \cup ProviderNames \cup {"other"}

NoCall ==
    /\ path = "none" /\ category = None /\ max_items = 0 /\ source_name = None
    /\ ordered_sources = <<>> /\ idx = 0 /\ fetchLog = <<>>
    /\ logged = "none" /\ result = <<>> /\ upstream = None
    /\ digest = None /\ calls = None

\* the state after NewsSourceManager() returns
Init ==
    /\ \E usable \in SUBSET ProviderNames :
          /\ sources = load_sources(usable)
          /\ available = [p \in ProviderNames |-> p \in usable]
    /\ \E file \in ConfigFiles :
          /\ source_priority = load_config(file).source_priority
          /\ source_config = load_config(file).source_config
    /\ startup = None
    /\ registrations = 0
    /\ pc = "idle"
    /\ NoCall

\* register_source(source) with a freshly constructed variant
RegisterSource(p, a) ==
    /\ pc = "idle"
    /\ registrations < MaxRegistrations
    /\ registrations' = registrations + 1
    /\ sources' = register_source(sources, p)
    /\ available' = [available EXCEPT ![p] = a]
    /\ UNCHANGED <<digest, calls,
                   source_priority, pc, path, category, max_items, source_name,
                   ordered_sources, idx, fetchLog, logged, result,
                   source_config, startup, upstream>>

\* fetch_by_category with a source_name: the whole pinned path
FetchPinned(cat, n, name) ==
    /\ pc = "idle"
    /\ pinned(name)
    /\ pc' = "done"
    /\ path' = "pinned"
    /\ category' = cat /\ max_items' = n /\ source_name' = name
    /\ LET check == pinned_check(sources, available, name, cat)
       IN IF check # "fetch"
          THEN /\ logged' = check
               /\ result' = <<>>
               /\ fetchLog' = <<>>
          ELSE \E r \in fetch_outcomes(name, cat, n, available[name]) :
                 /\ fetchLog' = <<Invocation(name, r)>>
                 /\ logged' = IF r.error = None THEN "fetched" ELSE "fetch_error"
                 /\ result' = r.items
    /\ UNCHANGED <<managerVars, digest, calls, ordered_sources, idx, upstream>>

\* fetch_by_category without a source_name, up to the loop
FetchAuto(cat, n, name) ==
    /\ pc = "idle"
    /\ ~pinned(name)
    /\ path' = "auto"
    /\ category' = cat /\ max_items' = n /\ source_name' = name
    /\ fetchLog' = <<>>
    /\ result' = <<>>
    /\ LET available_sources == get_sources_for_category(sources, available, cat)
       IN IF available_sources = <<>>
          THEN /\ logged' = "no_sources"
               /\ pc' = "done"
               /\ UNCHANGED <<ordered_sources, idx>>
          ELSE /\ ordered_sources' = order_sources(source_priority, available_sources)
               /\ idx' = 1
               /\ pc' = "loop"
               /\ UNCHANGED logged
    /\ UNCHANGED <<managerVars, digest, calls, upstream>>

\* one iteration of `for source_name in ordered_sources`
LoopFetch ==
    /\ pc = "loop"
    /\ idx <= Len(ordered_sources)
    /\ LET name == ordered_sources[idx]
       IN /\ source_name' = name
          /\ \E r \in fetch_outcomes(name, category, max_items, available[name]) :
                /\ fetchLog' = Append(fetchLog, Invocation(name, r))
                /\ IF loop_returns(r)
                   THEN /\ result' = r.items
                        /\ logged' = "fetched"
                        /\ pc' = "done"
                        /\ UNCHANGED idx
                   ELSE /\ logged' = IF r.error = None THEN "no_items" ELSE "fetch_error"
                        /\ idx' = idx + 1
                        /\ UNCHANGED <<pc, result>>
    /\ UNCHANGED <<managerVars, digest, calls, path, category, max_items,
                   ordered_sources, upstream>>

\* the loop ran out of candidates
LoopExhausted ==
    /\ pc = "loop"
    /\ idx > Len(ordered_sources)
    /\ logged' = "all_failed"
    /\ result' = <<>>
    /\ pc' = "done"
    /\ UNCHANGED <<managerVars, digest, calls, path, category, max_items, source_name,
                   ordered_sources, idx, fetchLog, upstream>>

\* the caller takes the list; the manager is ready for the next call
Return ==
    /\ pc = "done"
    /\ pc' = "idle"
    /\ path' = "none" /\ category' = None /\ max_items' = 0 /\ source_name' = None
    /\ ordered_sources' = <<>> /\ idx' = 0 /\ fetchLog' = <<>>
    /\ logged' = "none" /\ result' = <<>> /\ upstream' = None
    /\ UNCHANGED <<managerVars, digest, calls>>

Next ==
    \/ \E p \in ProviderNames : \E a \in AvailabilityChoices(p) : RegisterSource(p, a)
    \/ \E cat \in AllCategories : \E n \in 0..MaxItems : \E name \in SourceNameArgs :
          FetchPinned(cat, n, name)
    \/ \E cat \in AllCategories : \E n \in 0..MaxItems : \E name \in SourceNameArgs :
          FetchAuto(cat, n, name)
    \/ LoopFetch
    \/ LoopExhausted
    \/ Return

Spec == Init /\ [][Next]_vars

\* ------------------------------------------------------------- construction

\* before NewsSourceManager() runs
InitNew ==
    /\ startup \in StartupChoices
    /\ sources = <<>>
    /\ available = [p \in ProviderNames |-> FALSE]
    /\ source_priority = <<>>
    /\ source_config = {}
    /\ registrations = 0
    /\ pc = "new"
    /\ NoCall

\* NewsSourceManager(): _load_config, then _load_sources
Construct ==
    /\ pc = "new"
    /\ pc' = "idle"
    /\ source_priority' = load_config(startup.config_file).source_priority
    /\ source_config' = load_config(startup.config_file).source_config
    /\ sources' = load_variants(startup.variants)
    /\ available' = [p \in ProviderNames |-> startup.variants[p] = "ok"]
    /\ UNCHANGED <<digest, calls,
                   startup, registrations, path, category, max_items, source_name,
                   ordered_sources, idx, fetchLog, logged, result, upstream>>

\* construction as a step, followed by the fetches of the constructed manager
NextConstruct ==
    \/ Construct
    \/ \E cat \in AllCategories : \E n \in 0..MaxItems : \E name \in SourceNameArgs :
          FetchPinned(cat, n, name)
    \/ \E cat \in AllCategories : \E n \in 0..MaxItems : \E name \in SourceNameArgs :
          FetchAuto(cat, n, name)
    \/ LoopFetch
    \/ LoopExhausted
    \/ Return

SpecConstruct == InitNew /\ [][NextConstruct]_vars

\* ------------------------------------------- a provider from outside the package

\* the manager after register_source(custom), custom being an instance of a
\* NewsSource subclass whose methods may raise
InitCustom ==
    /\ \E usable \in SUBSET ProviderNames : \E a \in BOOLEAN :
          /\ sources = register_source(load_sources(usable), "custom")
          /\ available = [p \in ProviderNames \cup {"custom"} |->
                              IF p = "custom" THEN a ELSE p \in usable]
    /\ \E file \in ConfigFiles :
          /\ source_priority = load_config(file).source_priority
          /\ source_config = load_config(file).source_config
    /\ startup = None
    /\ registrations = 1
    /\ pc = "idle"
    /\ NoCall

\* fetch_by_category in which is_available() or supports_category() of the
\* custom provider raises: on the pinned path when it is the named source
\* (lines 176 and 180), on the auto-selection path inside
\* get_sources_for_category (line 146); no try block encloses either
ProviderMethodRaises(cat, n, name) ==
    /\ pc = "idle"
    /\ InSeq("custom", sources)
    /\ pinned(name) => name = "custom"
    /\ pc' = "raised"
    /\ path' = IF pinned(name) THEN "pinned" ELSE "auto"
    /\ category' = cat /\ max_items' = n /\ source_name' = name
    /\ \/ logged' = "is_available"
       \/ available["custom"] /\ logged' = "supports_category"
    /\ fetchLog' = <<>>
    /\ result' = <<>>
    /\ UNCHANGED <<managerVars, digest, calls, ordered_sources, idx, upstream>>

\* the caller of fetch_by_category handles the exception
Unwind ==
    /\ pc = "raised"
    /\ pc' = "idle"
    /\ path' = "none" /\ category' = None /\ max_items' = 0 /\ source_name' = None
    /\ ordered_sources' = <<>> /\ idx' = 0 /\ fetchLog' = <<>>
    /\ logged' = "none" /\ result' = <<>> /\ upstream' = None
    /\ UNCHANGED <<managerVars, digest, calls>>

NextCustom ==
    \/ \E cat \in AllCategories : \E n \in 0..MaxItems :
          \E name \in SourceNameArgs \cup {"custom"} : FetchPinned(cat, n, name)
    \/ \E cat \in AllCategories : \E n \in 0..MaxItems : \E name \in SourceNameArgs :
          FetchAuto(cat, n, name)
    \/ LoopFetch
    \/ LoopExhausted
    \/ Return
    \/ \E cat \in AllCategories : \E n \in 0..MaxItems :
          \E name \in SourceNameArgs \cup {"custom"} : ProviderMethodRaises(cat, n, name)
    \/ Unwind

SpecCustom == InitCustom /\ [][NextCustom]_vars

\* ------------------------------------------- longer configured priority lists

\* configuration files whose priority list has MaxConfiguredPriority entries,
\* so that it can name a provider more than once
LongPriorityFiles ==
    {[kind |-> "mapping", priority |-> p, sources |-> "mapping"] :
        p \in [1..MaxConfiguredPriority -> ProviderNames]}

\* the state after NewsSourceManager(config_path) with such a file
InitLongPriority ==
    /\ \E usable \in SUBSET ProviderNames :
          /\ sources = load_sources(usable)
          /\ available = [p \in ProviderNames |-> p \in usable]
    /\ \E file \in LongPriorityFiles :
          /\ source_priority = load_config(file).source_priority
          /\ source_config = load_config(file).source_config
    /\ startup = None
    /\ registrations = 0
    /\ pc = "idle"
    /\ NoCall

NextLongPriority ==
    \/ \E cat \in AllCategories : \E n \in 0..MaxItems : \E name \in SourceNameArgs :
          FetchPinned(cat, n, name)
    \/ \E cat \in AllCategories : \E n \in 0..MaxItems : \E name \in SourceNameArgs :
          FetchAuto(cat, n, name)
    \/ LoopFetch
    \/ LoopExhausted
    \/ Return

SpecLongPriority == InitLongPriority /\ [][NextLongPriority]_vars

\* ------------------------------------------------------- digest generation

\* words a preference text may contain
LearnWords == {"ai", "cooking"}
FunWords == {"history", "quotes"}

\* the preferences dictionary: the words of learn_about and fun_learning, the
\* time budget, and include_quotes, which may be missing
Preferences ==
    [learn_about : SUBSET LearnWords,
     fun_learning : SUBSET FunWords,
     time_budget : {"quick", "standard", "deep"},
     include_quotes : {"absent", "True", "False"}]

\* the strategy dictionary of analyze_user_preferences
analyze_user_preferences(preferences) ==
    [max_items |-> IF preferences.time_budget = "quick" THEN 4
                   ELSE IF preferences.time_budget = "standard" THEN 6 ELSE 8,
     include_tech |->
        preferences.learn_about
            \cap {"ai", "tech", "startup", "software", "innovation"} # {},
     include_history |->
        preferences.fun_learning
            \cap {"history", "historical", "past", "exploration"} # {},
     include_quotes |-> preferences.include_quotes # "False"]

\* the kind process_content_item gives an item
process_content_item(item_type) == IF item_type = "serious" THEN "need" ELSE "nice"

\* how many items each fetch_content_by_type call of one digest returns: the
\* two tech fetches, the quotes fetch and the history fetch
ContentAvailability ==
    [tech : 0..MaxContent, tech_again : 0..MaxContent,
     quotes : 0..MaxContent, history : 0..MaxContent]

\* sections numbered as the enumerate loop numbers them
Sections(kinds) == [i \in 1..Len(kinds) |-> [id |-> i, kind |-> kinds[i]]]

\* the sections of generate_mock_digest
generate_mock_digest(preferences, content) ==
    LET strategy == analyze_user_preferences(preferences)
        first == IF strategy.include_tech /\ content.tech >= 1
                 THEN <<process_content_item("serious")>> ELSE <<>>
        second == IF strategy.include_quotes /\ content.quotes >= 1
                  THEN Append(first, process_content_item("fun")) ELSE first
        third == IF /\ strategy.include_tech
                    /\ Len(second) < strategy.max_items
                    /\ content.tech_again > 1
                 THEN Append(second, process_content_item("serious")) ELSE second
        items_to_add == IF /\ strategy.include_history
                           /\ Len(third) < strategy.max_items
                           /\ content.history >= 1
                        THEN Append(third, process_content_item("fun")) ELSE third
    IN Sections(items_to_add)

\* what the real agent comes to: no API key; creating it raises inside the
\* try block; invoke raises; a result of an unexpected type; a dictionary with
\* no messages; messages without a DigestResponse tool call; a DigestResponse
\* tool call with sections; or a plain list of sections
RealAgentOutcomes ==
    {[kind |-> k, sections |-> <<>>] :
        k \in {"no_api_key", "creation_error", "invoke_raises", "unexpected_format",
               "no_messages", "no_tool_call"}}
    \cup {[kind |-> k, sections |-> Sections(ks)] :
            k \in {"digest_response", "list"},
            ks \in SeqUpTo({"need", "nice"}, MaxSections)}

\* the value generate_digest_with_real_agent returns; an implicit None, which
\* is as falsy as the empty list, is given as the empty list
generate_digest_with_real_agent(agent) ==
    IF agent.kind \in {"digest_response", "list"} THEN agent.sections ELSE <<>>

\* the wrapper returning whatever the real agent returned when live data is asked
generate_digest_with_agent_no_fallback(preferences, use_live_data, agent, content) ==
    IF use_live_data
    THEN [sections |-> generate_digest_with_real_agent(agent), origin |-> "real",
          real_invoked |-> TRUE]
    ELSE [sections |-> generate_mock_digest(preferences, content), origin |-> "mock",
          real_invoked |-> FALSE]

\* generate_digest_with_agent: the sections returned, where they came from and
\* whether the real agent was tried
generate_digest_with_agent(preferences, use_live_data, agent, content) ==
    LET real_result == generate_digest_with_real_agent(agent)
    IN IF use_live_data /\ real_result # <<>>
       THEN [sections |-> real_result, origin |-> "real", real_invoked |-> TRUE]
       ELSE [sections |-> generate_mock_digest(preferences, content),
             origin |-> "mock", real_invoked |-> use_live_data]

\* no digest generation in progress
NoDigest ==
    [pc |-> "idle", call |-> "none",
     preferences |-> [learn_about |-> {}, fun_learning |-> {},
                      time_budget |-> "quick", include_quotes |-> "absent"],
     use_live_data |-> FALSE,
     content |-> [tech |-> 0, tech_again |-> 0, quotes |-> 0, history |-> 0],
     agent |-> [kind |-> "no_api_key", sections |-> <<>>],
     real_invoked |-> FALSE, origin |-> "none", sections |-> <<>>]

InitDigest ==
    /\ sources = <<>>
    /\ available = [p \in ProviderNames |-> FALSE]
    /\ source_priority = <<>>
    /\ source_config = {}
    /\ startup = None
    /\ registrations = 0
    /\ pc = "idle"
    /\ path = "none" /\ category = None /\ max_items = 0 /\ source_name = None
    /\ ordered_sources = <<>> /\ idx = 0 /\ fetchLog = <<>>
    /\ logged = "none" /\ result = <<>> /\ upstream = None
    /\ calls = None
    /\ digest = NoDigest

digestOnly ==
    <<managerVars, pc, path, category, max_items, source_name, ordered_sources, idx,
      fetchLog, logged, result, upstream, calls>>

\* generate_mock_digest(preferences)
GenerateMockDigest(preferences, content) ==
    /\ digest.pc = "idle"
    /\ digest' = [NoDigest EXCEPT !.pc = "done", !.call = "mock",
                                   !.preferences = preferences, !.content = content,
                                   !.origin = "mock",
                                   !.sections = generate_mock_digest(preferences, content)]
    /\ UNCHANGED digestOnly

\* generate_digest_with_agent(preferences, use_live_data)
GenerateDigestWithAgent(preferences, use_live_data, agent, content) ==
    /\ digest.pc = "idle"
    /\ LET returned == generate_digest_with_agent(preferences, use_live_data, agent, content)
       IN digest' = [NoDigest EXCEPT !.pc = "done", !.call = "agent",
                                     !.preferences = preferences, !.content = content,
                                     !.use_live_data = use_live_data, !.agent = agent,
                                     !.real_invoked = returned.real_invoked,
                                     !.origin = returned.origin,
                                     !.sections = returned.sections]
    /\ UNCHANGED digestOnly

\* the caller takes the sections
DigestReturn ==
    /\ digest.pc = "done"
    /\ digest' = NoDigest
    /\ UNCHANGED digestOnly

NextDigest ==
    \/ /\ digest.pc = "idle"
       /\ \E preferences \in Preferences : \E content \in ContentAvailability :
             GenerateMockDigest(preferences, content)
    \/ /\ digest.pc = "idle"
       /\ \E preferences \in Preferences : \E use_live_data \in BOOLEAN :
             \E agent \in RealAgentOutcomes : \E content \in ContentAvailability :
                GenerateDigestWithAgent(preferences, use_live_data, agent, content)
    \/ DigestReturn

SpecDigest == InitDigest /\ [][NextDigest]_vars

\* ------------------------------------------------------- concurrent callers

\* two callers of one manager, each in a thread of its own
Callers == {"first", "second"}

\* the categories and source_name arguments the concurrent callers pass
ConcurrentCategories == {"tech", "fun"}
ConcurrentNames == {None, "reddit"}

\* the read-only operations
ReadOnlyOps == {"get_available_sources", "get_sources_for_category", "get_source_info"}

\* the locals of a call that has not started
NoFrame ==
    [pc |-> "idle", path |-> "none", category |-> None, max_items |-> 0,
     source_name |-> None, ordered_sources |-> <<>>, idx |-> 0, fetchLog |-> <<>>,
     logged |-> "none", result |-> <<>>]

\* the locals kept in one place shared by every caller
frame_of_shared(cs, c) == cs["first"]

\* the locals of caller c's call: each invocation has a frame of its own
frame_of(cs, c) == cs[c]

get_available_sources(srcs, avail) == SelectSeq(srcs, LAMBDA name : avail[name])

\* the list a read-only operation reports: the available names, the
\* candidates of a category, or the names get_source_info describes
read_only(op, srcs, avail, cat) ==
    IF op = "get_available_sources" THEN get_available_sources(srcs, avail)
    ELSE IF op = "get_sources_for_category" THEN get_sources_for_category(srcs, avail, cat)
    ELSE srcs

InitConcurrent ==
    /\ \E usable \in SUBSET ProviderNames :
          /\ sources = load_sources(usable)
          /\ available = [p \in ProviderNames |-> p \in usable]
    /\ \E file \in ConfigFiles :
          /\ source_priority = load_config(file).source_priority
          /\ source_config = load_config(file).source_config
    /\ startup = None
    /\ registrations = 0
    /\ pc = "idle"
    /\ path = "none" /\ category = None /\ max_items = 0 /\ source_name = None
    /\ ordered_sources = <<>> /\ idx = 0 /\ fetchLog = <<>>
    /\ logged = "none" /\ result = <<>> /\ upstream = None
    /\ digest = None
    /\ calls = [c \in Callers |-> NoFrame]

callsOnly ==
    <<managerVars, pc, path, category, max_items, source_name, ordered_sources, idx,
      fetchLog, logged, result, upstream, digest>>

\* caller c: fetch_by_category with a source_name, the whole pinned path
CallFetchPinned(c, cat, n, name) ==
    /\ frame_of(calls, c).pc = "idle"
    /\ pinned(name)
    /\ LET check == pinned_check(sources, available, name, cat)
           entered == [NoFrame EXCEPT !.pc = "done", !.path = "pinned",
                                      !.category = cat, !.max_items = n,
                                      !.source_name = name]
       IN IF check # "fetch"
          THEN calls' = [calls EXCEPT ![c] = [entered EXCEPT !.logged = check]]
          ELSE \E r \in fetch_outcomes(name, cat, n, available[name]) :
                 calls' = [calls EXCEPT ![c] =
                    [entered EXCEPT !.fetchLog = <<Invocation(name, r)>>,
                                    !.logged = IF r.error = None THEN "fetched"
                                               ELSE "fetch_error",
                                    !.result = r.items]]
    /\ UNCHANGED callsOnly

\* caller c: fetch_by_category without a source_name, up to the loop
CallFetchAuto(c, cat, n, name) ==
    /\ frame_of(calls, c).pc = "idle"
    /\ ~pinned(name)
    /\ LET available_sources == get_sources_for_category(sources, available, cat)
           entered == [NoFrame EXCEPT !.path = "auto", !.category = cat,
                                      !.max_items = n, !.source_name = name]
       IN IF available_sources = <<>>
          THEN calls' = [calls EXCEPT ![c] =
                  [entered EXCEPT !.pc = "done", !.logged = "no_sources"]]
          ELSE calls' = [calls EXCEPT ![c] =
                  [entered EXCEPT !.pc = "loop", !.idx = 1,
                                  !.ordered_sources =
                                      order_sources(source_priority, available_sources)]]
    /\ UNCHANGED callsOnly

\* caller c: one iteration of `for source_name in ordered_sources`
CallLoopFetch(c) ==
    LET frame == frame_of(calls, c)
    IN /\ frame.pc = "loop"
       /\ frame.idx <= Len(frame.ordered_sources)
       /\ LET name == frame.ordered_sources[frame.idx]
          IN \E r \in fetch_outcomes(name, frame.category, frame.max_items,
                                     available[name]) :
               LET fetched == [frame EXCEPT !.source_name = name,
                                            !.fetchLog = Append(@, Invocation(name, r))]
               IN IF loop_returns(r)
                  THEN calls' = [calls EXCEPT ![c] =
                          [fetched EXCEPT !.result = r.items, !.logged = "fetched",
                                          !.pc = "done"]]
                  ELSE calls' = [calls EXCEPT ![c] =
                          [fetched EXCEPT !.logged = IF r.error = None THEN "no_items"
                                                     ELSE "fetch_error",
                                          !.idx = @ + 1]]
       /\ UNCHANGED callsOnly

\* caller c: the loop ran out of candidates
CallLoopExhausted(c) ==
    LET frame == frame_of(calls, c)
    IN /\ frame.pc = "loop"
       /\ frame.idx > Len(frame.ordered_sources)
       /\ calls' = [calls EXCEPT ![c] =
              [frame EXCEPT !.logged = "all_failed", !.result = <<>>, !.pc = "done"]]
       /\ UNCHANGED callsOnly

\* caller c: get_available_sources, get_sources_for_category or get_source_info
CallReadOnly(c, op, cat) ==
    /\ frame_of(calls, c).pc = "idle"
    /\ calls' = [calls EXCEPT ![c] =
          [NoFrame EXCEPT !.pc = "done", !.path = op, !.category = cat,
                          !.ordered_sources = read_only(op, sources, available, cat)]]
    /\ UNCHANGED callsOnly

\* caller c takes what its call returned
CallReturn(c) ==
    /\ frame_of(calls, c).pc = "done"
    /\ calls' = [calls EXCEPT ![c] = NoFrame]
    /\ UNCHANGED callsOnly

NextConcurrent ==
    \E c \in Callers :
        \/ /\ calls[c].pc = "idle"
           /\ \E cat \in ConcurrentCategories : \E name \in ConcurrentNames :
                 CallFetchPinned(c, cat, MaxItems, name)
        \/ /\ calls[c].pc = "idle"
           /\ \E cat \in ConcurrentCategories : \E name \in ConcurrentNames :
                 CallFetchAuto(c, cat, MaxItems, name)
        \/ CallLoopFetch(c)
        \/ CallLoopExhausted(c)
        \/ /\ calls[c].pc = "idle"
           /\ \E op \in ReadOnlyOps : \E cat \in ConcurrentCategories :
                 CallReadOnly(c, op, cat)
        \/ CallReturn(c)

SpecConcurrent == InitConcurrent /\ [][NextConcurrent]_vars

\* ------------------------------------------------- providers called directly

\* no manager: provider objects are constructed and used by the caller
InitDirect ==
    /\ sources = <<>>
    /\ available = [p \in ProviderNames |-> FALSE]
    /\ source_priority = <<>>
    /\ source_config = {}
    /\ startup = None
    /\ registrations = 0
    /\ pc = "idle"
    /\ NoCall

\* source = Variant(); source.fetch(category, max_items)
DirectFetch(p, cat, n, a, env) ==
    /\ pc = "idle"
    /\ pc' = "done"
    /\ path' = "direct"
    /\ category' = cat /\ max_items' = n /\ source_name' = p
    /\ available' = [available EXCEPT ![p] = a]
    /\ upstream' = env
    /\ LET r == fetch(p, cat, n, a, env)
       IN /\ fetchLog' = <<Invocation(p, r)>>
          /\ result' = r.items
          /\ logged' = IF r.error = None THEN "fetched" ELSE "fetch_error"
    /\ UNCHANGED <<digest, calls,
                   sources, source_priority, registrations, source_config, startup,
                   ordered_sources, idx>>

\* search_news(query, max_items): a TavilySource is constructed, asked whether
\* it is available and, if so, searched
SearchNews(n, a, env) ==
    /\ pc = "idle"
    /\ pc' = "done"
    /\ path' = "search"
    /\ category' = "custom" /\ max_items' = n /\ source_name' = "tavily"
    /\ available' = [available EXCEPT !["tavily"] = a]
    /\ upstream' = env
    /\ fetchLog' = IF a THEN <<Invocation("tavily", TavilySource_search_custom(n, a, env))>>
                   ELSE <<>>
    /\ result' = search_news(n, a, env).items
    /\ logged' = IF search_news(n, a, env).error = None THEN "searched"
                 ELSE search_news(n, a, env).error
    /\ UNCHANGED <<digest, calls,
                   sources, source_priority, registrations, source_config, startup,
                   ordered_sources, idx>>

NextDirect ==
    \/ /\ pc = "idle"
       /\ \E p \in ProviderNames : \E cat \in AllCategories : \E n \in 0..MaxItems :
             \E a \in AvailabilityChoices(p) : \E env \in FetchEnv(p, cat) :
                DirectFetch(p, cat, n, a, env)
    \/ /\ pc = "idle"
       /\ \E n \in 0..MaxItems : \E a \in BOOLEAN : \E env \in TavilyQueryEnv :
             SearchNews(n, a, env)
    \/ Return

SpecDirect == InitDirect /\ [][NextDirect]_vars

\* ------------------------------------------------------------------- claims

\* a logged fetch that returned a non-empty list without raising
NonEmptyOk(e) == e.error = None /\ e.items # <<>>

\* the registered providers that are available and support the category
CandidateSet(cat) ==
    {p \in ProviderNames : InSeq(p, sources) /\ available[p] /\ cat \in categories(p)}

\* the position of x in the list s
IndexOf(x, s) == CHOOSE i \in 1..Len(s) : s[i] = x

AutoDone == pc = "done" /\ path = "auto"

PinnedDone == pc = "done" /\ path = "pinned"

\* what the caller of fetch_by_category receives, and what it receives when
\* a fetch simply produced nothing
CallerReceives == [kind |-> "list", value |-> result]

OrdinaryEmptyResult == [kind |-> "list", value |-> <<>>]

\* C1: an auto-selection call returns exactly the list of the first candidate,
\* in candidate order, whose fetch returned a non-empty list without raising;
\* the candidates before it raised or returned nothing; when no candidate
\* returned a non-empty list every candidate was tried and the result is empty.
C1_FirstNonEmptyWins ==
    AutoDone =>
        /\ \A i \in 1..Len(fetchLog) :
              i <= Len(ordered_sources) /\ fetchLog[i].source = ordered_sources[i]
        /\ IF \E i \in 1..Len(fetchLog) : NonEmptyOk(fetchLog[i])
           THEN /\ NonEmptyOk(fetchLog[Len(fetchLog)])
                /\ \A i \in 1..(Len(fetchLog) - 1) : ~NonEmptyOk(fetchLog[i])
                /\ result = fetchLog[Len(fetchLog)].items
           ELSE /\ Len(fetchLog) = Len(ordered_sources)
                /\ result = <<>>

\* the first candidate raised, the second returned nothing, the third's list
\* was returned
C1_Witness ==
    /\ AutoDone
    /\ Len(fetchLog) = 3
    /\ fetchLog[1].error # None
    /\ fetchLog[2].error = None /\ fetchLog[2].items = <<>>
    /\ NonEmptyOk(fetchLog[3])
    /\ result = fetchLog[3].items

\* C2: within an auto-selection call the fetches made so far are the first
\* candidates of the ordered list, in order; a step adds at most one fetch, and
\* only when every fetch before it raised or returned nothing, so that no fetch
\* follows a non-empty list.
C2_SequentialPrefix ==
    [][path' = "auto" =>
         /\ \A i \in 1..Len(fetchLog') :
               i <= Len(ordered_sources') /\ fetchLog'[i].source = ordered_sources'[i]
         /\ \/ fetchLog' = fetchLog
            \/ /\ Len(fetchLog') = Len(fetchLog) + 1
               /\ SubSeq(fetchLog', 1, Len(fetchLog)) = fetchLog
               /\ \A i \in 1..Len(fetchLog) : ~NonEmptyOk(fetchLog[i])]_vars

\* a failing first candidate, a working second one, and a third never fetched:
\* exactly one fallback attempt
C2_Witness ==
    /\ AutoDone
    /\ Len(ordered_sources) = 3
    /\ Len(fetchLog) = 2
    /\ fetchLog[1].error # None
    /\ NonEmptyOk(fetchLog[2])

\* C3: the candidate list of the loop is the priority list restricted to the
\* candidates, followed by the registration list restricted to the candidates
\* the priority list does not name.
C3_CandidateOrder ==
    (path = "auto" /\ pc \in {"loop", "done"} /\ CandidateSet(category) # {}) =>
        ordered_sources =
            SelectSeq(source_priority, LAMBDA s : s \in CandidateSet(category))
            \o SelectSeq(sources, LAMBDA s : s \in CandidateSet(category)
                                              /\ ~InSeq(s, source_priority))

\* the priority list puts a later-registered candidate first and names a
\* provider that is no candidate
C3_Witness ==
    /\ pc = "loop"
    /\ Len(ordered_sources) >= 2
    /\ IndexOf(ordered_sources[1], sources) > IndexOf(ordered_sources[2], sources)
    /\ \E i \in 1..Len(source_priority) : ~InSeq(source_priority[i], ordered_sources)

\* C4: every fetch of an auto-selection call is on a registered provider that
\* is available and supports the category, and the candidates of the loop are
\* exactly those providers.
C4_OnlyCandidatesFetched ==
    path = "auto" =>
        /\ \A i \in 1..Len(fetchLog) : fetchLog[i].source \in CandidateSet(category)
        /\ {ordered_sources[i] : i \in 1..Len(ordered_sources)} = CandidateSet(category)

\* priority names reddit first, reddit is registered but unavailable, and only
\* hackernews is fetched
C4_Witness ==
    /\ AutoDone
    /\ category = "tech"
    /\ source_priority # <<>> /\ source_priority[1] = "reddit"
    /\ InSeq("reddit", sources) /\ ~available["reddit"]
    /\ Len(fetchLog) = 1 /\ fetchLog[1].source = "hackernews"
    /\ result # <<>>

\* C5: a call returns at most max_items items.
C5_AtMostMaxItems == pc = "done" => Len(result) <= max_items

\* C6: when no registered provider is available and supports the category,
\* the call makes no fetch and returns the empty list, which fetch_news reports
\* with an error text.
C6_NoCandidatesEmpty ==
    (pc = "done" /\ CandidateSet(category) = {}) =>
        /\ result = <<>>
        /\ fetchLog = <<>>
        /\ logged \in {"no_sources", "not_found", "unavailable", "unsupported"}
        /\ path = "auto" => logged = "no_sources"
        /\ fetch_news_response(result, category).count = 0
        /\ fetch_news_response(result, category).error # None

\* providers are registered, yet none serves the category asked for
C6_Witness ==
    /\ AutoDone
    /\ sources # <<>>
    /\ category # "other"
    /\ CandidateSet(category) = {}
    /\ logged = "no_sources"

C8_PinnedUnavailable ==
    (PinnedDone /\ InSeq(source_name, sources) /\ ~available[source_name]) =>
        /\ logged = "unavailable"
        /\ fetchLog = <<>>
        /\ result = <<>>

\* the unavailable pinned provider does support the category
C8_Witness ==
    /\ PinnedDone
    /\ InSeq(source_name, sources)
    /\ ~available[source_name]
    /\ supports_category(source_name, category)
    /\ logged = "unavailable"

\* C9: a pinned provider that is registered and available but does not support
\* the category ends the call with the category-unsupported error and without
\* a fetch.
C9_PinnedUnsupported ==
    (PinnedDone /\ InSeq(source_name, sources) /\ available[source_name]
                /\ category \notin categories(source_name)) =>
        /\ logged = "unsupported"
        /\ fetchLog = <<>>
        /\ result = <<>>

\* the category is one another registered provider serves
C9_Witness ==
    /\ PinnedDone
    /\ InSeq(source_name, sources)
    /\ available[source_name]
    /\ category \notin categories(source_name)
    /\ CandidateSet(category) # {}
    /\ logged = "unsupported"

\* C10: a call entered with a source_name finishes on the pinned path with at
\* most one fetch, of the named provider, whatever the outcome; the
\* auto-selection loop is never entered.
C10_PinnedNeverFallsBack ==
    [][(pc = "idle" /\ pc' # "idle" /\ source_name' \notin {None, ""}) =>
         /\ pc' = "done"
         /\ path' = "pinned"
         /\ Len(fetchLog') <= 1
         /\ \A i \in 1..Len(fetchLog') : fetchLog'[i].source = source_name'
         /\ ordered_sources' = <<>>]_vars

\* the pinned fetch raised while another candidate could have served the
\* category, and the call returned nothing
C10_Witness ==
    /\ PinnedDone
    /\ logged = "fetch_error"
    /\ Len(fetchLog) = 1
    /\ CandidateSet(category) \ {source_name} # {}
    /\ result = <<>>

\* a call on the pinned path whose one fetch raised
PinnedFetchRaised ==
    PinnedDone /\ logged = "fetch_error" /\ Len(fetchLog) = 1 /\ fetchLog[1].error # None

\* C11 as stated: when the pinned provider's fetch raises, the caller receives
\* an empty result whose error field carries the detail of that failure.
C11_ErrorDetailAttached ==
    PinnedFetchRaised =>
        /\ result = <<>>
        /\ fetch_news_response(result, category).error = fetchLog[1].error

\* C11 amended: when the pinned provider's fetch raises, the exception is
\* caught and logged, the call returns the plain empty list, and fetch_news
\* reports it with source_used 'none' and the fixed text it gives every empty
\* result; the detail of the failure reaches no caller.
C11_PinnedFetchErrorSwallowed ==
    PinnedFetchRaised =>
        /\ result = <<>>
        /\ CallerReceives = OrdinaryEmptyResult
        /\ fetch_news_response(result, category).source_used = "none"
        /\ fetch_news_response(result, category).error =
               "No items available from any source"
        /\ fetch_news_response(result, category).error # fetchLog[1].error

\* the pinned scraper failed with a RuntimeError
C11_Witness ==
    /\ PinnedFetchRaised
    /\ source_name = "hackernews"
    /\ fetchLog[1].error = "RuntimeError"
    /\ fetch_news_response(result, category).count = 0

\* C13: the items a call returns are the list of one fetch of one provider,
\* the last fetch the call made; every item names that provider, and
\* source_used of fetch_news names it too.
C13_SingleProviderAttributed ==
    (pc = "done" /\ result # <<>>) =>
        /\ fetchLog # <<>>
        /\ result = fetchLog[Len(fetchLog)].items
        /\ \A i \in 1..Len(result) : result[i].source_name = fetchLog[Len(fetchLog)].source
        /\ \A i \in 1..(Len(fetchLog) - 1) : fetchLog[i].items = <<>>
        /\ fetch_news_response(result, category).source_used = fetchLog[Len(fetchLog)].source
        /\ fetch_news_response(result, category).items = result

\* the first candidate raised and the second one's items are returned and
\* attributed to the second
C13_Witness ==
    /\ AutoDone
    /\ Len(fetchLog) = 2
    /\ fetchLog[1].error # None
    /\ result # <<>>
    /\ fetch_news_response(result, category).source_used = ordered_sources[2]
    /\ ordered_sources[2] # ordered_sources[1]

\* C15: construction leaves out every variant whose import or construction
\* raised and registers every usable variant whatever the others did, in the
\* order they are tried; a manager with no provider answers a call with the
\* empty list and no fetch.
C15_VariantsLoadIndependently ==
    pc # "new" =>
        /\ \A p \in ProviderNames :
              /\ startup.variants[p] = "raises" => ~InSeq(p, sources)
              /\ startup.variants[p] = "ok" => InSeq(p, sources)
        /\ sources = SelectSeq(ProviderOrder, LAMBDA p : startup.variants[p] = "ok")
        /\ (pc = "done" /\ sources = <<>>) => (result = <<>> /\ fetchLog = <<>>)

\* the first variant failed to load, the other three are registered, and a
\* call was served by one of them
C15_Witness ==
    /\ pc = "done"
    /\ startup.variants["hackernews"] = "raises"
    /\ sources = <<"reddit", "wikipedia", "tavily">>
    /\ category = "tech"
    /\ result # <<>>

\* the configuration file is missing, or reading it raised
ConfigLoadFailed ==
    \/ startup.config_file.kind # "mapping"
    \/ startup.config_file.sources = "unsized"

\* C16: after construction, a missing file or a failed read leaves the
\* built-in default priority and default source_config; otherwise both come
\* from the file; never one from the file and the other from the default.
C16_DefaultConfigOnFailure ==
    pc # "new" =>
        /\ ConfigLoadFailed =>
              /\ source_priority = <<"hackernews", "reddit", "wikipedia", "tavily">>
              /\ source_config = DefaultSourceConfig
        /\ ~ConfigLoadFailed =>
              /\ source_priority = startup.config_file.priority
              /\ source_config = FileSourceConfig

\* the read failed after the file's priority list had been assigned
C16_Witness ==
    /\ pc = "idle"
    /\ startup.config_file.kind = "mapping"
    /\ startup.config_file.priority # <<>>
    /\ startup.config_file.sources = "unsized"
    /\ source_priority = DefaultPriority
    /\ source_config = DefaultSourceConfig

DirectDone == pc = "done" /\ path = "direct"

\* C17: a fetch called directly with a category outside the provider's set
\* raises ValueError whatever the upstream would have answered; with a
\* supported category on an unavailable provider it raises RuntimeError; in
\* neither case does it return a list.
C17_FetchFailsFast ==
    DirectDone =>
        /\ category \notin categories(source_name) =>
              fetchLog[1].error = "ValueError"
        /\ (category \in categories(source_name) /\ ~available[source_name]) =>
              fetchLog[1].error = "RuntimeError"
        /\ (category \notin categories(source_name) \/ ~available[source_name]) =>
              (fetchLog[1].error # None /\ result = <<>>)

\* an unavailable reddit source is asked for a category it supports while the
\* first subreddit had a post to offer
C17_Witness ==
    /\ DirectDone
    /\ source_name = "reddit"
    /\ ~available["reddit"]
    /\ category = "science"
    /\ max_items > 0
    /\ upstream[1].kind = "ok" /\ upstream[1].posts = <<FALSE>>
    /\ fetchLog[1].error = "RuntimeError"

SearchDone == pc = "done" /\ path = "search"

\* C18: search_news with an unavailable Tavily source returns no items and
\* the explanatory error text, and search_custom is not called.
C18_SearchUnavailable ==
    (SearchDone /\ ~available["tavily"]) =>
        /\ result = <<>>
        /\ logged = "Tavily search is not available (missing API key)"
        /\ fetchLog = <<>>

\* the search would have had a hit to return
C18_Witness ==
    /\ SearchDone
    /\ ~available["tavily"]
    /\ max_items > 0
    /\ upstream.kind = "list" /\ upstream.hits = <<TRUE>>
    /\ result = <<>>

\* WikipediaSource.fetch called with a category it does not declare
WikipediaUnsupported ==
    DirectDone /\ source_name = "wikipedia" /\ category \notin categories("wikipedia")

\* C19 as stated: WikipediaSource.fetch with a category outside its set does
\* not raise and returns the items of the 'On this day' strategy.
C19_FallsBackToOnThisDay ==
    WikipediaUnsupported =>
        /\ fetchLog[1].error = None
        /\ result = WikipediaSource_fetch_on_this_day(max_items, upstream)

\* C19 amended: WikipediaSource.fetch with a category outside its set raises
\* ValueError and returns nothing, whatever the feed holds.
C19_UnsupportedRaises ==
    WikipediaUnsupported =>
        /\ fetchLog[1].error = "ValueError"
        /\ result = <<>>

\* the feed had an event the fallback would have returned
C19_Witness ==
    /\ WikipediaUnsupported
    /\ category = "tech"
    /\ max_items > 0
    /\ upstream.kind = "ok" /\ upstream.events > 0
    /\ fetchLog[1].error = "ValueError"

\* C20: when the retrieval of the front page fails, HackerNewsSource.fetch
\* raises instead of returning an empty list.
C20_ScrapeFailureRaises ==
    (DirectDone /\ source_name = "hackernews" /\ category \in categories("hackernews")
                /\ upstream.kind = "network_error") =>
        fetchLog[1].error # None

\* C12: no call of fetch_by_category ends with an exception raised by a
\* provider method it invoked.
C12_NoProviderExceptionEscapes == pc # "raised"

AggregatingFetch ==
    /\ DirectDone
    /\ source_name \in {"reddit", "tavily"}
    /\ category \in categories(source_name)
    /\ available[source_name]

\* C21: when every sub-query of an aggregating provider's fetch fails, the
\* fetch raises instead of returning an empty list.
C21_AllSubQueriesFailedRaises ==
    (AggregatingFetch /\ \A i \in DOMAIN upstream : upstream[i].kind = "error") =>
        fetchLog[1].error # None

\* the sub-queries of the provider fetched directly, for the category asked
SubQueries ==
    IF source_name = "reddit" THEN SUBREDDIT_MAP(category) ELSE CATEGORY_QUERIES(category)

\* the share of max_items one sub-query is asked for
PerSubQuery == Max(1, max_items \div Len(SubQueries))

\* the entries sub-query i had to offer within its share: the posts that are
\* not stickied, the text blob, or the hits that are dicts
Eligible(i) ==
    IF upstream[i].kind = "error" THEN {}
    ELSE IF source_name = "reddit"
    THEN {<<i, j>> : j \in {k \in 1..Min(Len(upstream[i].posts), PerSubQuery) :
                                ~upstream[i].posts[k]}}
    ELSE IF upstream[i].kind = "str" THEN {<<i, 0>>}
    ELSE IF upstream[i].kind = "list"
    THEN {<<i, j>> : j \in {k \in 1..Min(Len(upstream[i].hits), PerSubQuery) :
                                upstream[i].hits[k]}}
    ELSE {}

\* sub-query order, then the order within a sub-query
KeyBefore(a, b) == a[1] < b[1] \/ (a[1] = b[1] /\ a[2] < b[2])

RedditFetch == AggregatingFetch /\ source_name = "reddit"

\* the subreddits the fetch queried
Queried ==
    reddit_queried(category, max_items,
                   Max(1, max_items \div Len(SUBREDDIT_MAP(category))), upstream, 1, <<>>)

\* the entries subreddits 1..i had to offer within their shares
Gathered(i) == Cardinality(UNION {Eligible(k) : k \in 1..i})

\* what holds of the share and of stickied posts: no subreddit contributes
\* more than max(1, max_items div number of subreddits) items, and no item
\* comes from a stickied post
ShareAndStickied ==
    /\ \A i \in DOMAIN upstream :
          Cardinality({k \in 1..Len(result) : result[k].key[1] = i}) <= PerSubQuery
    /\ \A k \in 1..Len(result) :
          ~upstream[result[k].key[1]].posts[result[k].key[2]]

\* C24 as stated: besides the share and the stickied posts, no subreddit is
\* queried once the items gathered have reached max_items.
C24_NoQueryOnceCapReached ==
    RedditFetch =>
        /\ ShareAndStickied
        /\ \A k \in 1..Len(Queried) : Gathered(Queried[k] - 1) < max_items

\* what the loop does guarantee: the subreddits are queried in mapping order,
\* the first one always; a further one is queried only when the items gathered
\* through the one before it are fewer than max_items or the one before it
\* raised; so for max_items >= 1 none is queried once max_items are gathered.
QueriesStopAfterCap ==
    RedditFetch =>
        /\ ShareAndStickied
        /\ Len(Queried) >= 1
        /\ \A k \in 1..Len(Queried) : Queried[k] = k
        /\ \A k \in 2..Len(Queried) :
              \/ Gathered(k - 1) < max_items
              \/ upstream[k - 1].kind = "error"
        /\ max_items >= 1 =>
              \A k \in 1..Len(Queried) : Gathered(k - 1) < max_items
        /\ Len(Queried) < Len(SUBREDDIT_MAP(category)) =>
              Gathered(Len(Queried)) >= max_items

\* with max_items = 0 the first subreddit's query raised and the second one
\* was queried, a stickied post heading its listing
QueriedAfterCap ==
    /\ RedditFetch
    /\ max_items = 0
    /\ upstream[1].kind = "error"
    /\ upstream[2].kind = "ok" /\ upstream[2].posts = <<TRUE>>
    /\ Len(Queried) >= 2

\* C25: within one fetch_by_category call no provider's fetch is invoked
\* more than once.
C25_EachProviderFetchedOnce ==
    \A i, j \in DOMAIN fetchLog :
        fetchLog[i].source = fetchLog[j].source => i = j

\* a direct HackerNewsSource.fetch that reached the scraper
ScraperRan ==
    /\ DirectDone /\ source_name = "hackernews"
    /\ category \in categories("hackernews") /\ available["hackernews"]
    /\ upstream.kind # "import_error"

\* C27: scrape_hacker_news always returns a result dictionary: total_items is
\* the length of items, which has at most max_items entries; a failure to
\* retrieve or parse the page gives items [], total_items 0 and an error; on a
\* retrieved page there is no error and the items are exactly the well-formed
\* rows among the first max_items rows, a malformed row being skipped.  The
\* provider built on it then returns without raising.
C27_ScraperNeverRaises ==
    ScraperRan =>
        LET scraped == scrape_hacker_news(max_items, upstream)
            examined == 1..Min(max_items, Len(upstream.rows))
        IN /\ DOMAIN scraped = {"items", "total_items", "error"}
           /\ scraped.total_items = Len(scraped.items)
           /\ Len(scraped.items) <= max_items
           /\ upstream.kind = "network_error" =>
                 scraped.items = <<>> /\ scraped.total_items = 0 /\ scraped.error
           /\ upstream.kind = "ok" =>
                 /\ ~scraped.error
                 /\ \A i \in examined : upstream.rows[i] <=> InSeq(i, scraped.items)
                 /\ \A k \in 1..Len(scraped.items) : scraped.items[k] \in examined
           /\ fetchLog[1].error = None
           /\ Len(result) = Len(scraped.items)

\* the one row examined was malformed: it was skipped and the scrape did not fail
C27_Witness ==
    /\ ScraperRan
    /\ max_items = 1
    /\ upstream.kind = "ok" /\ upstream.rows = <<FALSE, TRUE>>
    /\ ~scrape_hacker_news(max_items, upstream).error
    /\ result = <<>>

\* C29: after construction every registered provider was available when it
\* was registered; a variant that constructed but was unavailable is not
\* registered, and a pinned request for it ends with the source-not-found
\* error, not the source-unavailable one, and without a fetch.
C29_OnlyAvailableRegistered ==
    pc # "new" =>
        /\ \A i \in DOMAIN sources :
              startup.variants[sources[i]] = "ok" /\ available[sources[i]]
        /\ \A p \in ProviderNames :
              startup.variants[p] = "unavailable" => ~InSeq(p, sources)
        /\ (PinnedDone /\ source_name \in ProviderNames
                /\ startup.variants[source_name] = "unavailable") =>
              (logged = "not_found" /\ fetchLog = <<>> /\ result = <<>>)

\* the AI-search provider constructed without its API key and was then pinned
\* for a category it supports
C29_Witness ==
    /\ PinnedDone
    /\ source_name = "tavily"
    /\ startup.variants["tavily"] = "unavailable"
    /\ category \in categories("tavily")
    /\ logged = "not_found"

\* source_config enables the provider for the category
ConfigEnables(p, cat) ==
    \E e \in source_config : e.name = p /\ e.enabled /\ cat \in e.categories

\* C30: whatever source_config holds, the registered providers are the
\* variants that loaded and were available; the candidates of a category are
\* the registered, available providers supporting it, ordered by the priority
\* list alone; a pinned candidate is fetched; and an auto-selection call that
\* returns nothing has tried every candidate.
C30_SourceConfigInert ==
    pc # "new" =>
        /\ {sources[i] : i \in DOMAIN sources} =
              {p \in ProviderNames : startup.variants[p] = "ok"}
        /\ (path = "auto" /\ pc \in {"loop", "done"} /\ CandidateSet(category) # {}) =>
              /\ {ordered_sources[i] : i \in DOMAIN ordered_sources}
                    = CandidateSet(category)
              /\ ordered_sources =
                    SelectSeq(source_priority, LAMBDA s : s \in CandidateSet(category))
                    \o SelectSeq(sources, LAMBDA s : s \in CandidateSet(category)
                                                      /\ ~InSeq(s, source_priority))
        /\ (PinnedDone /\ source_name \in CandidateSet(category)) =>
              (Len(fetchLog) = 1 /\ fetchLog[1].source = source_name)
        /\ (AutoDone /\ result = <<>>) =>
              {fetchLog[i].source : i \in DOMAIN fetchLog} = CandidateSet(category)

\* the configuration file's per-source section lists only wikipedia, for
\* 'history', and a call was served by a provider it does not enable
C30_Witness ==
    /\ pc = "done"
    /\ startup.config_file.kind = "mapping"
    /\ source_config = FileSourceConfig
    /\ result # <<>>
    /\ ~ConfigEnables(result[1].source_name, category)

MockDone == digest.pc = "done" /\ digest.call = "mock"

AgentDone == digest.pc = "done" /\ digest.call = "agent"

\* C26: no two consecutive sections of generate_mock_digest have the same kind.
C26_SectionsAlternate ==
    MockDone =>
        \A i \in 1..(Len(digest.sections) - 1) :
            digest.sections[i].kind # digest.sections[i + 1].kind

\* the sections the real agent produced
RealSections == generate_digest_with_real_agent(digest.agent)

FetchEntries(f, p) ==
    {Invocation(p, r) : r \in fetch_outcomes(p, f.category, f.max_items, available[p])}

\* frame f is one a call running alone on this manager can be in
AloneOutcome(f) ==
    CASE f.pc = "idle" -> f = NoFrame
      [] f.path = "pinned" ->
            LET check == pinned_check(sources, available, f.source_name, f.category)
            IN /\ f.pc = "done"
               /\ IF check # "fetch"
                  THEN f.logged = check /\ f.fetchLog = <<>> /\ f.result = <<>>
                  ELSE /\ Len(f.fetchLog) = 1
                       /\ f.fetchLog[1] \in FetchEntries(f, f.source_name)
                       /\ f.result = f.fetchLog[1].items
      [] f.path = "auto" ->
            LET cands == get_sources_for_category(sources, available, f.category)
                log == f.fetchLog
            IN IF cands = <<>>
               THEN f.pc = "done" /\ log = <<>> /\ f.result = <<>>
                    /\ f.logged = "no_sources"
               ELSE /\ f.ordered_sources = order_sources(source_priority, cands)
                    /\ Len(log) <= Len(f.ordered_sources)
                    /\ \A i \in 1..Len(log) :
                          /\ log[i].source = f.ordered_sources[i]
                          /\ log[i] \in FetchEntries(f, log[i].source)
                          /\ i < Len(log) => ~NonEmptyOk(log[i])
                    /\ f.pc = "loop" =>
                          /\ f.idx = Len(log) + 1
                          /\ \A i \in 1..Len(log) : ~NonEmptyOk(log[i])
                    /\ f.pc = "done" =>
                          IF log # <<>> /\ NonEmptyOk(log[Len(log)])
                          THEN f.result = log[Len(log)].items
                          ELSE Len(log) = Len(f.ordered_sources) /\ f.result = <<>>
      [] OTHER ->
            /\ f.pc = "done"
            /\ f.ordered_sources = read_only(f.path, sources, available, f.category)

\* frame g is frame f, or what one step of the same call makes of it
StepOf(f, g) ==
    \/ g = f
    \/ /\ f.pc = "idle"
       /\ g.pc \in {"loop", "done"}
       /\ g.pc = "loop" => (g.idx = 1 /\ g.fetchLog = <<>>)
       /\ Len(g.fetchLog) <= 1
    \/ /\ f.pc = "loop"
       /\ g.pc \in {"loop", "done"}
       /\ g.path = f.path /\ g.category = f.category /\ g.max_items = f.max_items
       /\ g.ordered_sources = f.ordered_sources
       /\ Len(g.fetchLog) <= Len(f.fetchLog) + 1
       /\ SubSeq(g.fetchLog, 1, Len(f.fetchLog)) = f.fetchLog
    \/ f.pc = "done" /\ g = NoFrame

\* C22: in every interleaving of two callers' fetch_by_category and read-only
\* calls, no step changes sources, source_priority or a provider's
\* availability; a step advances one caller's call and leaves the other's
\* alone; and every call is, at each point, where a call running alone
\* against the same provider outcomes would be, so it returns the same list.
C22_ConcurrentCallsIsolated ==
    [][/\ sources' = sources
       /\ source_priority' = source_priority
       /\ available' = available
       /\ \E c \in Callers : \A d \in Callers \ {c} : calls'[d] = calls[d]
       /\ \A c \in Callers :
             StepOf(calls[c], calls'[c]) /\ AloneOutcome(calls'[c])]_vars

\* both callers are inside the auto-selection loop, for different
\* categories, each after a first candidate that produced nothing
C22_Witness ==
    /\ \A c \in Callers :
          /\ calls[c].pc = "loop"
          /\ calls[c].idx = 2
          /\ calls[c].idx <= Len(calls[c].ordered_sources)
    /\ calls["first"].category # calls["second"].category
    /\ calls["first"].ordered_sources # calls["second"].ordered_sources

====
